---- MODULE Spec2Model ----
(***************************************************************************)
(* Model of ScheduleManager ("MSMS Project (PST5)/app/schedule.py"), the   *)
(* controller that owns the student, teacher, course, account, instrument, *)
(* payment and attendance collections and persists them to a JSON file.    *)
(*                                                                         *)
(* Entities are records holding the attributes their constructors set     *)
(* (obj.__dict__).  A list is a sequence.  A handler that raises is an     *)
(* action ending with ret = "raise"; whatever it assigned before the       *)
(* raising line stays assigned.  The data file is the pair                 *)
(* (file_status, file_data): file_data is the JSON document as a record    *)
(* keyed by the document's top-level keys.  Of the log file the model      *)
(* keeps its first line (log_first, "" while the file does not exist) and  *)
(* the tags of the lines the last call appended (logged).  The backup file *)
(* is the pair (backup_status, backup_doc), read like the data file;       *)
(* reports maps each export path to the file found there.                  *)
(***************************************************************************)
EXTENDS Integers, Sequences, FiniteSets, TLC

VARIABLES students, teachers, courses, attendance_log, instruments, admin,
          admins, staff, finance_log,
          next_student_id, next_teacher_id, next_admin_id, next_staff_id,
          file_status, file_data, corrupt_backup, log_first,
          backup_status, backup_doc, reports,
          call, ret, retId, logged, returned

mem  == <<students, teachers, courses, attendance_log, instruments, admin,
          admins, staff, finance_log,
          next_student_id, next_teacher_id, next_admin_id, next_staff_id>>
file == <<file_status, file_data, corrupt_backup>>
out  == <<backup_status, backup_doc, reports>>
vars == <<mem, file, out, log_first, call, ret, retId, logged, returned>>

(***************************************************************************)
(* Bounds of the model.                                                    *)
(***************************************************************************)
MaxStudents == 2
MaxCourses == 2
MaxLessons == 1
MaxPayments == 1
MaxAdmins == 2
MaxStaff == 1

(***************************************************************************)
(* Program constants: the counter seeds of __init__.                       *)
(***************************************************************************)
StudentIdSeed == 4000
TeacherIdSeed == 3000
AdminIdSeed == 1000
StaffIdSeed == 2000

Names == {"Alicia"}
NewNames == {"Shuen"}
Specialities == {"Piano"}
Instruments == {"Piano", "Violin"}
CourseInstruments == {"Piano"}
CourseNames == {"Piano Basics"}
Titles == {"Week 1"}
Days == {"Monday"}
Times == {"10:00"}
Durations == {60}
Methods == {"Cash"}
Timestamps == {"T1"}
Passwords == {"pw1"}
NewPasswords == {"pw2"}
AdminNames == {"alpha"}
NewAdminNames == {"beta"}
StaffNames == {"Shuen"}
\* amounts in hundredths; a numeric argument and a string argument
NumberAmounts == {2500, 0, -100}
StringAmounts == {"200.50", "bad"}

\* an argument that is not a string (None, 123): it equals no string
NonString == "<None>"

\* an out_path of export_report: whether its directory exists, and the
\* suffix that out_path.endswith() tests
Path(dir_exists, ext) == [dir_exists |-> dir_exists, ext |-> ext]
ExportPaths == {Path(TRUE, ".json"), Path(TRUE, ".csv"), Path(TRUE, ".txt"),
                Path(FALSE, ".json"), Path(FALSE, ".csv")}
Kinds == {"payments", "attendance", "nonsense"}

\* the file at an export path: "absent", "complete" (holding `rows`), or
\* "partial" (a dump that stopped at a value it could not serialize)
Report(status, rows) == [status |-> status, rows |-> rows]
NoReport == Report("absent", <<>>)

\* ids handed to the operations: an id in range that no entity currently has
\* is an unknown id
StudentIdInputs == (StudentIdSeed .. (StudentIdSeed + MaxStudents - 1))
TeacherIdInputs == (TeacherIdSeed .. (TeacherIdSeed + 2))
CourseIdInputs == (1 .. MaxCourses)
AdminIdInputs == (AdminIdSeed .. (AdminIdSeed + MaxAdmins - 1))
StaffIdInputs == (StaffIdSeed .. (StaffIdSeed + MaxStaff - 1))

(***************************************************************************)
(* Python list helpers.                                                    *)
(***************************************************************************)
Contains(seq, x) == \E i \in 1..Len(seq) : seq[i] = x

\* index of the first element equal to x, 0 if none
IndexOf(seq, x) ==
    IF Contains(seq, x)
    THEN CHOOSE i \in 1..Len(seq) : seq[i] = x /\ \A j \in 1..(i-1) : seq[j] # x
    ELSE 0

RemoveAt(seq, i) == SubSeq(seq, 1, i-1) \o SubSeq(seq, i+1, Len(seq))

\* list.remove(x): drops the first occurrence (callers guard membership)
ListRemove(seq, x) == RemoveAt(seq, IndexOf(seq, x))

\* next((e for e in seq if e.id == id), None): position of the first match, 0 for None
FindById(seq, id) ==
    IF \E i \in 1..Len(seq) : seq[i].id = id
    THEN CHOOSE i \in 1..Len(seq) : seq[i].id = id /\ \A j \in 1..(i-1) : seq[j].id # id
    ELSE 0

find_student_by_id(id) == FindById(students, id)
find_teacher_by_id(id) == FindById(teachers, id)
find_course_by_id(id) == FindById(courses, id)
find_admin_by_id(id) == FindById(admin, id)
find_staff_by_id(id) == FindById(staff, id)

RECURSIVE SortedSeq(_)
\* list(set_of_small_ints): CPython iterates a set of small ints in ascending order
SortedSeq(S) ==
    IF S = {} THEN <<>>
    ELSE LET m == CHOOSE x \in S : \A y \in S : x <= y
         IN <<m>> \o SortedSeq(S \ {m})

\* the comprehension without its filter
NotTaughtBy_unfiltered(cs, teacher_id) == cs

RECURSIVE NotTaughtBy(_, _)
\* [c for c in cs if c.teacher_id != teacher_id]
NotTaughtBy(cs, teacher_id) ==
    IF cs = <<>> THEN <<>>
    ELSE IF Head(cs).teacher_id # teacher_id
         THEN <<Head(cs)>> \o NotTaughtBy(Tail(cs), teacher_id)
         ELSE NotTaughtBy(Tail(cs), teacher_id)

SeqSet(seq) == {seq[i] : i \in 1..Len(seq)}

(***************************************************************************)
(* Entity constructors.  kw is the mapping of bound arguments; XOK(kw)     *)
(* says the call binds (no TypeError), X(kw) is the constructed object's   *)
(* __dict__.                                                               *)
(***************************************************************************)
Binds(kw, required, optional) ==
    /\ required \subseteq DOMAIN kw
    /\ DOMAIN kw \subseteq (required \cup optional)

\* a constructor that drops the enrolled_course_ids it is given
StudentUser_fresh_list(kw) ==
    [id |-> kw.id, name |-> kw.name, enrolled_course_ids |-> <<>>]

StudentUserOK(kw) == Binds(kw, {"id", "name"}, {"enrolled_course_ids"})
StudentUser(kw) ==
    [id |-> kw.id, name |-> kw.name,
     enrolled_course_ids |-> IF "enrolled_course_ids" \in DOMAIN kw
                             THEN kw.enrolled_course_ids ELSE <<>>]

TeacherUserOK(kw) ==
    Binds(kw, {"id", "name", "speciality", "username", "password"}, {})
TeacherUser(kw) ==
    [id |-> kw.id, name |-> kw.name, speciality |-> kw.speciality,
     username |-> kw.username, password |-> kw.password]

CourseOK(kw) ==
    Binds(kw, {"id", "exam_body", "subject", "teacher_id"},
              {"enrolled_student_ids", "lessons"})
Course(kw) ==
    [id |-> kw.id, exam_body |-> kw.exam_body, subject |-> kw.subject,
     teacher_id |-> kw.teacher_id,
     enrolled_student_ids |-> IF "enrolled_student_ids" \in DOMAIN kw
                              THEN kw.enrolled_student_ids ELSE <<>>,
     lessons |-> IF "lessons" \in DOMAIN kw THEN kw.lessons ELSE <<>>]

\* attributes a Course object has; schedule.py reads .name and .instrument
CourseHas(attr) == attr \in {"id", "exam_body", "subject", "teacher_id",
                             "enrolled_student_ids", "lessons"}

AdminUserOK(kw) == Binds(kw, {"id", "username", "password"}, {})
AdminUser(kw) == [id |-> kw.id, username |-> kw.username, password |-> kw.password]

StaffUserOK(kw) == Binds(kw, {"id", "name", "password"}, {})
StaffUser(kw) == [id |-> kw.id, name |-> kw.name, password |-> kw.password]

(***************************************************************************)
(* Persistence.                                                            *)
(***************************************************************************)
\* the document _save_data builds from the in-memory state
data_to_save(s, t, c, att, ins, adm, stf, fin, ns, nt, na, nst) ==
    [students |-> s, teachers |-> t, courses |-> c, attendance |-> att,
     instruments |-> ins, admin |-> adm, staff |-> stf, finance_log |-> fin,
     next_student_id |-> ns, next_teacher_id |-> nt,
     next_admin_id |-> na, next_staff_id |-> nst]

EmptyDoc == data_to_save(<<>>, <<>>, <<>>, <<>>, <<>>, <<>>, <<>>, <<>>,
                         StudentIdSeed, TeacherIdSeed, AdminIdSeed, StaffIdSeed)

\* a value json.dump cannot serialize (a set, say), passed as an argument
NotJSON == "<set>"

\* json.dump(data_to_save) completes: no stored record holds such a value
Serializable == \A i \in 1..Len(finance_log) : finance_log[i].method # NotJSON

\* the tag _save_data logs
SaveTag == IF Serializable THEN "SAVE" ELSE "SAVE_ERROR"

\* a save that runs ahead of the step's mutation
save_data_before_mutation ==
    /\ corrupt_backup' = corrupt_backup
    /\ file_status' = "ok"
    /\ file_data' = data_to_save(students, teachers, courses, attendance_log,
                                 instruments, admin, staff, finance_log,
                                 next_student_id, next_teacher_id, next_admin_id,
                                 next_staff_id)

\* _save_data at the end of a step: the file becomes the dump of the new
\* state; when json.dump raises, the file opened for writing is left holding
\* the part written so far, which does not parse
save_data ==
    /\ corrupt_backup' = corrupt_backup
    /\ IF Serializable'
       THEN /\ file_status' = "ok"
            /\ file_data' = data_to_save(students', teachers', courses',
                                         attendance_log', instruments', admin',
                                         staff', finance_log', next_student_id',
                                         next_teacher_id', next_admin_id',
                                         next_staff_id')
       ELSE /\ file_status' = "corrupt"
            /\ file_data' = EmptyDoc

\* data.get(key, [])
Get(data, key) == IF key \in DOMAIN data THEN data[key] ELSE <<>>

\* the try-block of _load_data on a parsed document: the assignments in
\* order, stopping at the first constructor that raises (generic except)
load_parsed(data) ==
    LET ds == Get(data, "students")
        dt == Get(data, "teachers")
        dst == Get(data, "staff")
        da == Get(data, "admins")
        dc == Get(data, "courses")
        sOK  == \A i \in 1..Len(ds) : StudentUserOK(ds[i])
        tOK  == sOK /\ \A i \in 1..Len(dt) : TeacherUserOK(dt[i])
        stOK == tOK /\ \A i \in 1..Len(dst) : StaffUserOK(dst[i])
        aOK  == stOK /\ \A i \in 1..Len(da) : AdminUserOK(da[i])
        cOK  == aOK /\ \A i \in 1..Len(dc) : CourseOK(dc[i])
    IN [students |-> IF sOK THEN [i \in 1..Len(ds) |-> StudentUser(ds[i])] ELSE <<>>,
        teachers |-> IF tOK THEN [i \in 1..Len(dt) |-> TeacherUser(dt[i])] ELSE <<>>,
        staff |-> IF stOK THEN [i \in 1..Len(dst) |-> StaffUser(dst[i])] ELSE <<>>,
        admins |-> IF aOK THEN [i \in 1..Len(da) |-> AdminUser(da[i])] ELSE <<>>,
        courses |-> IF cOK THEN [i \in 1..Len(dc) |-> Course(dc[i])] ELSE <<>>,
        instruments |-> IF cOK THEN Get(data, "instruments") ELSE <<>>,
        finance_log |-> IF cOK THEN Get(data, "finance_log") ELSE <<>>,
        attendance_log |-> IF cOK THEN Get(data, "attendance_log") ELSE <<>>,
        \* every constructor call bound: the try-block ran to its end
        complete |-> cOK]

NothingLoaded ==
    [students |-> <<>>, teachers |-> <<>>, staff |-> <<>>, admins |-> <<>>,
     courses |-> <<>>, instruments |-> <<>>, finance_log |-> <<>>,
     attendance_log |-> <<>>, complete |-> FALSE]

\* _load_data against a data file: "absent", "corrupt" (not JSON),
\* "undecodable" (not UTF-8 text), or "ok" (parses to the document `data`)
load_data(status, data) ==
    IF status = "ok" THEN load_parsed(data) ELSE NothingLoaded

\* the tags _load_data logs
load_tags(status, data) ==
    CASE status = "absent" -> <<"LOAD_INFO", "SAVE">>
      [] status = "corrupt" -> <<"LOAD_ERROR", "BACKUP_ERROR", "SAVE">>
      [] status = "undecodable" -> <<"LOAD_ERROR">>
      [] OTHER -> IF load_parsed(data).complete THEN <<"LOAD">> ELSE <<"LOAD_ERROR">>


(***************************************************************************)
(* Bookkeeping of the last call: its name, what it returned ("entity",     *)
(* "True", "False", "None", "raise"), the id of the entity it returned     *)
(* (0 if none), the tags of the lines it appended to the log, in order,    *)
(* and the list a query returned (empty for the other calls).              *)
(***************************************************************************)
\* the header line __init__ writes into a log file that does not exist
LogHeader == "=== System Log Started ==="

\* the first line of the log file once log_action has appended the lines
\* `tags`: open(log_path, "a") creates the file when it does not exist
LogAppend(first, tags) == IF first = "" /\ tags # <<>> THEN tags[1] ELSE first

\* the first line of the log file after the last statement of __init__:
\* if not os.path.exists(log_path): write the header
header_check(first) == IF first = "" THEN LogHeader ELSE first

Returns(o, r, id, tags) ==
    /\ call' = o
    /\ ret' = r
    /\ retId' = id
    /\ logged' = tags
    /\ log_first' = LogAppend(log_first, tags)
    /\ returned' = <<>>

\* the result of a call that writes neither the backup nor a report
Result(o, r, id, tags) ==
    /\ Returns(o, r, id, tags)
    /\ UNCHANGED out

\* a query that returns a list and logs nothing
ResultList(o, list) ==
    /\ call' = o
    /\ ret' = "list"
    /\ retId' = 0
    /\ logged' = <<>>
    /\ log_first' = log_first
    /\ returned' = list
    /\ UNCHANGED out

\* a handler line that reads course.<attr>: AttributeError unless Course has it
ReadsCourse(attr, r) == IF CourseHas(attr) THEN r ELSE "raise"

\* the tags logged by a handler that reads course.<attr> after logging
\* `before` and ahead of logging `after`
LogsAround(attr, before, after) == IF CourseHas(attr) THEN before \o after ELSE before

(***************************************************************************)
(* Students, teachers, courses.                                            *)
(***************************************************************************)
add_student(name) ==
    /\ Len(students) < MaxStudents
    /\ students' = Append(students,
                          StudentUser([id |-> next_student_id, name |-> name]))
    /\ next_student_id' = next_student_id + 1
    /\ UNCHANGED <<teachers, courses, attendance_log, instruments, admin, admins,
                   staff, finance_log, next_teacher_id, next_admin_id, next_staff_id>>
    /\ save_data
    /\ Result("add_student", "entity", next_student_id,
              <<"ADD_STUDENT", SaveTag'>>)

add_teacher(name, speciality) ==
    LET kw == [id |-> next_teacher_id, name |-> name, speciality |-> speciality]
    IN IF TeacherUserOK(kw)
       THEN /\ teachers' = Append(teachers, TeacherUser(kw))
            /\ next_teacher_id' = next_teacher_id + 1
            /\ UNCHANGED <<students, courses, attendance_log, instruments, admin,
                           admins, staff, finance_log, next_student_id,
                           next_admin_id, next_staff_id>>
            /\ save_data
            /\ Result("add_teacher", "entity", next_teacher_id,
                      <<"ADD_TEACHER", SaveTag'>>)
       ELSE \* TypeError from TeacherUser(id, name, speciality)
            /\ UNCHANGED <<mem, file>>
            /\ Result("add_teacher", "raise", 0, <<>>)

\* an add_course that does not look the teacher up
add_course_unchecked(name, instrument, teacher_id) ==
    /\ Len(courses) < MaxCourses
    /\ courses' = Append(courses,
           Course([id |-> Len(courses) + 1, exam_body |-> name,
                   subject |-> instrument, teacher_id |-> teacher_id]))
    /\ UNCHANGED <<students, teachers, attendance_log, instruments, admin,
                   admins, staff, finance_log, next_student_id,
                   next_teacher_id, next_admin_id, next_staff_id>>
    /\ save_data
    /\ Result("add_course", ReadsCourse("name", "entity"), Len(courses) + 1,
              <<"ADD_COURSE", SaveTag'>>)

add_course(name, instrument, teacher_id) ==
    IF find_teacher_by_id(teacher_id) = 0
    THEN /\ UNCHANGED <<mem, file>>
         /\ Result("add_course", "None", 0, <<>>)
    ELSE /\ Len(courses) < MaxCourses
         /\ courses' = Append(courses,
                Course([id |-> Len(courses) + 1, exam_body |-> name,
                        subject |-> instrument, teacher_id |-> teacher_id]))
         /\ UNCHANGED <<students, teachers, attendance_log, instruments, admin,
                        admins, staff, finance_log, next_student_id,
                        next_teacher_id, next_admin_id, next_staff_id>>
         /\ save_data
         \* print(new_course.name) after the save
         /\ Result("add_course",
                   ReadsCourse("name", "entity"), Len(courses) + 1,
                   <<"ADD_COURSE", SaveTag'>>)

enroll_student_in_course(student_id, course_id) ==
    LET si == find_student_by_id(student_id)
        ci == find_course_by_id(course_id)
    IN IF si = 0 \/ ci = 0
       THEN /\ UNCHANGED <<mem, file>>
            /\ Result("enroll_student_in_course", "False", 0, <<>>)
       ELSE IF Contains(students[si].enrolled_course_ids, course_id)
       THEN \* print(... course.name) before return False
            /\ UNCHANGED <<mem, file>>
            /\ Result("enroll_student_in_course",
                      ReadsCourse("name", "False"), 0, <<>>)
       ELSE /\ students' = [students EXCEPT ![si].enrolled_course_ids =
                                                Append(@, course_id)]
            /\ courses' = [courses EXCEPT ![ci].enrolled_student_ids =
                                              Append(@, student_id)]
            /\ UNCHANGED <<teachers, attendance_log, instruments, admin, admins,
                           staff, finance_log, next_student_id, next_teacher_id,
                           next_admin_id, next_staff_id>>
            /\ save_data
            \* print(... course.name) after the save
            /\ Result("enroll_student_in_course",
                      ReadsCourse("name", "True"), 0,
                      LogsAround("name", <<SaveTag'>>, <<"ENROLL">>))

switch_student_course(student_id, from_course_id, to_course_id) ==
    LET si == find_student_by_id(student_id)
        fi == find_course_by_id(from_course_id)
        ti == find_course_by_id(to_course_id)
    IN IF si = 0 \/ fi = 0 \/ ti = 0
       THEN /\ UNCHANGED <<mem, file>>
            /\ Result("switch_student_course", "False", 0, <<>>)
       ELSE IF ~Contains(students[si].enrolled_course_ids, from_course_id)
       THEN /\ UNCHANGED <<mem, file>>
            /\ Result("switch_student_course", ReadsCourse("name", "False"), 0,
                      <<>>)
       ELSE IF Contains(students[si].enrolled_course_ids, to_course_id)
       THEN /\ UNCHANGED <<mem, file>>
            /\ Result("switch_student_course", ReadsCourse("name", "False"), 0,
                      <<>>)
       ELSE IF ~Contains(courses[fi].enrolled_student_ids, student_id)
       THEN \* from_course.enrolled_student_ids.remove raises ValueError after
            \* the student's list lost from_course_id; nothing is saved
            /\ students' = [students EXCEPT ![si].enrolled_course_ids =
                                                ListRemove(@, from_course_id)]
            /\ UNCHANGED <<teachers, courses, attendance_log, instruments, admin,
                           admins, staff, finance_log, next_student_id,
                           next_teacher_id, next_admin_id, next_staff_id, file>>
            /\ Result("switch_student_course", "raise", 0, <<>>)
       ELSE /\ students' = [students EXCEPT ![si].enrolled_course_ids =
                                Append(ListRemove(@, from_course_id), to_course_id)]
            /\ courses' = [courses EXCEPT
                             ![fi].enrolled_student_ids = ListRemove(@, student_id),
                             ![ti].enrolled_student_ids = Append(@, student_id)]
            /\ UNCHANGED <<teachers, attendance_log, instruments, admin, admins,
                           staff, finance_log, next_student_id, next_teacher_id,
                           next_admin_id, next_staff_id>>
            /\ save_data
            /\ Result("switch_student_course", ReadsCourse("name", "True"), 0,
                      <<SaveTag'>>)

remove_student(student_id) ==
    LET si == find_student_by_id(student_id)
    IN IF si = 0
       THEN /\ UNCHANGED <<mem, file>>
            /\ Result("remove_student", "False", 0, <<>>)
       ELSE /\ students' = RemoveAt(students, si)
            /\ courses' = [i \in 1..Len(courses) |->
                             IF Contains(courses[i].enrolled_student_ids, student_id)
                             THEN [courses[i] EXCEPT !.enrolled_student_ids =
                                                       ListRemove(@, student_id)]
                             ELSE courses[i]]
            /\ UNCHANGED <<teachers, attendance_log, instruments, admin, admins,
                           staff, finance_log, next_student_id, next_teacher_id,
                           next_admin_id, next_staff_id>>
            /\ save_data
            /\ Result("remove_student", "True", 0,
                      <<"REMOVE_STUDENT", SaveTag'>>)

remove_teacher(teacher_id) ==
    LET ti == find_teacher_by_id(teacher_id)
        teacher_course_ids ==
            {courses[i].id : i \in {j \in 1..Len(courses) :
                                      courses[j].teacher_id = teacher_id}}
    IN IF ti = 0
       THEN /\ UNCHANGED <<mem, file>>
            /\ Result("remove_teacher", "False", 0, <<>>)
       ELSE /\ students' = [i \in 1..Len(students) |->
                LET original_courses == SeqSet(students[i].enrolled_course_ids)
                    updated_courses == original_courses \ teacher_course_ids
                IN IF original_courses # updated_courses
                   THEN [students[i] EXCEPT !.enrolled_course_ids =
                                              SortedSeq(updated_courses)]
                   ELSE students[i]]
            /\ courses' = NotTaughtBy(courses, teacher_id)
            /\ teachers' = RemoveAt(teachers, ti)
            /\ UNCHANGED <<attendance_log, instruments, admin, admins, staff,
                           finance_log, next_student_id, next_teacher_id,
                           next_admin_id, next_staff_id>>
            /\ save_data
            /\ Result("remove_teacher", "True", 0,
                      <<"REMOVE_TEACHER", SaveTag'>>)

remove_course(course_id) ==
    LET ci == find_course_by_id(course_id)
    IN IF ci = 0
       THEN /\ UNCHANGED <<mem, file>>
            /\ Result("remove_course", "False", 0, <<>>)
       ELSE IF ~CourseHas("name")
       THEN \* log_action(... course.name) comes before the removal
            /\ UNCHANGED <<mem, file>>
            /\ Result("remove_course", "raise", 0, <<>>)
       ELSE /\ courses' = RemoveAt(courses, ci)
            /\ students' = [i \in 1..Len(students) |->
                             IF Contains(students[i].enrolled_course_ids, course_id)
                             THEN [students[i] EXCEPT !.enrolled_course_ids =
                                                        ListRemove(@, course_id)]
                             ELSE students[i]]
            /\ UNCHANGED <<teachers, attendance_log, instruments, admin, admins,
                           staff, finance_log, next_student_id, next_teacher_id,
                           next_admin_id, next_staff_id>>
            /\ save_data
            /\ Result("remove_course", "True", 0,
                      <<"REMOVE_COURSE", SaveTag'>>)


add_lesson_to_course(course_id, title, day, time, duration_minutes) ==
    LET ci == find_course_by_id(course_id)
        lesson == [title |-> title, day |-> day, time |-> time,
                   duration |-> duration_minutes]
    IN IF ci = 0
       THEN /\ UNCHANGED <<mem, file>>
            /\ Result("add_lesson_to_course", "False", 0, <<>>)
       ELSE /\ Len(courses[ci].lessons) < MaxLessons
            \* Course.add_lesson appends, then prints self.name
            /\ courses' = [courses EXCEPT ![ci].lessons = Append(@, lesson)]
            /\ UNCHANGED <<students, teachers, attendance_log, instruments, admin,
                           admins, staff, finance_log, next_student_id,
                           next_teacher_id, next_admin_id, next_staff_id>>
            /\ IF CourseHas("name")
               THEN save_data /\ Result("add_lesson_to_course", "True", 0,
                                        <<SaveTag', "ADD_LESSON">>)
               ELSE UNCHANGED file /\ Result("add_lesson_to_course", "raise", 0,
                                             <<>>)

remove_lesson_from_course(course_id, lesson_title) ==
    LET ci == find_course_by_id(course_id)
        li == IF ci = 0 THEN 0
              ELSE IF \E i \in 1..Len(courses[ci].lessons) :
                          courses[ci].lessons[i].title = lesson_title
                   THEN CHOOSE i \in 1..Len(courses[ci].lessons) :
                          /\ courses[ci].lessons[i].title = lesson_title
                          /\ \A j \in 1..(i-1) :
                                courses[ci].lessons[j].title # lesson_title
                   ELSE 0
    IN IF ci = 0
       THEN /\ UNCHANGED <<mem, file>>
            /\ Result("remove_lesson_from_course", "False", 0, <<>>)
       ELSE IF li = 0
       THEN /\ UNCHANGED <<mem, file>>
            /\ Result("remove_lesson_from_course", ReadsCourse("name", "False"), 0,
                      <<>>)
       ELSE /\ courses' = [courses EXCEPT ![ci].lessons =
                                              ListRemove(@, courses[ci].lessons[li])]
            /\ UNCHANGED <<students, teachers, attendance_log, instruments, admin,
                           admins, staff, finance_log, next_student_id,
                           next_teacher_id, next_admin_id, next_staff_id>>
            /\ save_data
            /\ Result("remove_lesson_from_course", ReadsCourse("name", "True"), 0,
                      <<SaveTag'>>)

check_in_student(student_id, course_id, timestamp) ==
    LET si == find_student_by_id(student_id)
        ci == find_course_by_id(course_id)
    IN IF si = 0 \/ ci = 0
       THEN /\ UNCHANGED <<mem, file>>
            /\ Result("check_in_student", "False", 0, <<>>)
       ELSE IF ~CourseHas("name")
       THEN \* check_in_record reads course.name
            /\ UNCHANGED <<mem, file>>
            /\ Result("check_in_student", "raise", 0, <<>>)
       ELSE /\ attendance_log' = Append(attendance_log,
                   [student_id |-> student_id, course_id |-> course_id,
                    course_name |-> courses[ci].name, timestamp |-> timestamp])
            /\ UNCHANGED <<students, teachers, courses, instruments, admin, admins,
                           staff, finance_log, next_student_id, next_teacher_id,
                           next_admin_id, next_staff_id>>
            /\ save_data
            /\ Result("check_in_student", "True", 0, <<SaveTag', "CHECKIN">>)

(***************************************************************************)
(* The daily roster.                                                       *)
(***************************************************************************)
valid_days == {"monday", "tuesday", "wednesday", "thursday", "friday",
               "saturday", "sunday"}

\* str.lower() on the day strings of the model
Lower(str) ==
    CASE str = "Monday" -> "monday"
      [] str = " MONDAY " -> " monday "
      [] str = "Tuesday" -> "tuesday"
      [] str = "Funday" -> "funday"
      [] OTHER -> str

\* str.strip() on the day strings of the model
Strip(str) == IF str = " monday " THEN "monday" ELSE str

\* the roster row of one lesson of a course
RosterRow(course, lesson) ==
    LET ti == find_teacher_by_id(course.teacher_id)
    IN [course_name |-> course.name, course_id |-> course.id,
        instrument |-> course.instrument,
        teacher_name |-> IF ti = 0 THEN "Unknown" ELSE teachers[ti].name,
        lesson_title |-> lesson.title, time |-> lesson.time,
        duration |-> lesson.duration,
        students_enrolled |-> Len(course.enrolled_student_ids)]

RECURSIVE LessonRows(_, _, _)
\* the rows of the lessons of one course that fall on the day
LessonRows(course, lessons, day) ==
    IF lessons = <<>> THEN <<>>
    ELSE (IF Lower(Head(lessons).day) = day
          THEN <<RosterRow(course, Head(lessons))>> ELSE <<>>)
         \o LessonRows(course, Tail(lessons), day)

RECURSIVE RosterRows(_, _)
\* for course in self.courses: for lesson in course.lessons: ...
RosterRows(cs, day) ==
    IF cs = <<>> THEN <<>>
    ELSE LessonRows(Head(cs), Head(cs).lessons, day) \o RosterRows(Tail(cs), day)

\* some lesson of some course falls on the day
LessonOn(day) ==
    \E j \in 1..Len(courses) : \E i \in 1..Len(courses[j].lessons) :
        Lower(courses[j].lessons[i].day) = day

get_daily_roster(day) ==
    /\ UNCHANGED <<mem, file>>
    /\ IF day = NonString
       THEN ResultList("get_daily_roster", <<>>)
       ELSE LET d == Strip(Lower(day))
            IN IF d \notin valid_days
               THEN ResultList("get_daily_roster", <<>>)
               ELSE IF LessonOn(d) /\ ~(CourseHas("name") /\ CourseHas("instrument"))
               THEN \* the row of the first lesson found reads course.name
                    Result("get_daily_roster", "raise", 0, <<>>)
               ELSE ResultList("get_daily_roster", RosterRows(courses, d))

(***************************************************************************)
(* Payments.  Amounts are in hundredths.                                   *)
(***************************************************************************)
\* a Python float: nan, or a number of hundredths
Float(v) == [nan |-> FALSE, v |-> v]
NaN == [nan |-> TRUE, v |-> 0]

\* f <= 0: every comparison with nan is False
LeZero(f) == ~f.nan /\ f.v <= 0

\* float(text) succeeds
FloatParses(text) == text \in {"200.50", "100", "nan"}
\* float(text)
FloatOf(text) ==
    CASE text = "200.50" -> Float(20050)
      [] text = "nan" -> NaN
      [] OTHER -> Float(10000)

\* a record_payment that appends before it rejects a non-positive amount
record_amount_late_check(student_id, amount, method, timestamp) ==
    LET si == find_student_by_id(student_id)
    IN /\ Len(finance_log) < MaxPayments
       /\ finance_log' = Append(finance_log,
              [student_id |-> student_id, student_name |-> students[si].name,
               amount |-> amount, method |-> method, timestamp |-> timestamp])
       /\ UNCHANGED <<students, teachers, courses, attendance_log, instruments,
                      admin, admins, staff, next_student_id, next_teacher_id,
                      next_admin_id, next_staff_id>>
       /\ save_data
       /\ Result("record_payment", IF LeZero(amount) THEN "False" ELSE "True", 0,
                 <<SaveTag', "PAYMENT">>)

\* the part of record_payment after amount = float(amount)
record_amount(student_id, amount, method, timestamp) ==
    LET si == find_student_by_id(student_id)
    IN IF LeZero(amount)
       THEN /\ UNCHANGED <<mem, file>>
            /\ Result("record_payment", "False", 0, <<>>)
       ELSE /\ Len(finance_log) < MaxPayments
            /\ finance_log' = Append(finance_log,
                   [student_id |-> student_id, student_name |-> students[si].name,
                    amount |-> amount, method |-> method, timestamp |-> timestamp])
            /\ UNCHANGED <<students, teachers, courses, attendance_log, instruments,
                           admin, admins, staff, next_student_id, next_teacher_id,
                           next_admin_id, next_staff_id>>
            /\ save_data
            /\ Result("record_payment", "True", 0, <<SaveTag', "PAYMENT">>)

\* record_payment with a numeric amount
record_payment(student_id, amount, method, timestamp) ==
    IF find_student_by_id(student_id) = 0
    THEN /\ UNCHANGED <<mem, file>>
         /\ Result("record_payment", "False", 0, <<>>)
    ELSE record_amount(student_id, Float(amount), method, timestamp)

\* record_payment with a string amount
record_payment_str(student_id, text, method, timestamp) ==
    IF find_student_by_id(student_id) = 0 \/ ~FloatParses(text)
    THEN /\ UNCHANGED <<mem, file>>
         /\ Result("record_payment", "False", 0, <<>>)
    ELSE record_amount(student_id, FloatOf(text), method, timestamp)

\* record_payment with amount None: float(None) raises TypeError, which the
\* handler's except ValueError does not catch
record_payment_none(student_id, method) ==
    /\ UNCHANGED <<mem, file>>
    /\ Result("record_payment",
              IF find_student_by_id(student_id) = 0 THEN "False" ELSE "raise",
              0, <<>>)

RECURSIVE PaymentsOf(_, _)
\* [p for p in log if p["student_id"] == student_id]
PaymentsOf(log, student_id) ==
    IF log = <<>> THEN <<>>
    ELSE IF Head(log).student_id = student_id
         THEN <<Head(log)>> \o PaymentsOf(Tail(log), student_id)
         ELSE PaymentsOf(Tail(log), student_id)

\* a get_payment_history that does not look the student up
get_payment_history_no_lookup(student_id) ==
    /\ UNCHANGED <<mem, file>>
    /\ ResultList("get_payment_history", PaymentsOf(finance_log, student_id))

get_payment_history(student_id) ==
    /\ UNCHANGED <<mem, file>>
    /\ ResultList("get_payment_history",
                  IF find_student_by_id(student_id) = 0 THEN <<>>
                  ELSE PaymentsOf(finance_log, student_id))

(***************************************************************************)
(* Reports and the manual backup.                                          *)
(***************************************************************************)
\* json.dump can serialize every record of the list
Dumpable(rows) ==
    \A i \in 1..Len(rows) : "method" \in DOMAIN rows[i] => rows[i].method # NotJSON

RECURSIVE DumpedPrefix(_)
\* the records json.dump has written out when it reaches one it cannot
DumpedPrefix(rows) ==
    IF rows = <<>> \/ ~Dumpable(<<Head(rows)>>) THEN <<>>
    ELSE <<Head(rows)>> \o DumpedPrefix(Tail(rows))

export_report(kind, out_path) ==
    LET data == IF kind = "payments" THEN finance_log ELSE attendance_log
    IN /\ UNCHANGED <<mem, file, backup_status, backup_doc>>
       /\ IF kind \notin {"payments", "attendance"}
          THEN /\ reports' = reports
               /\ Returns("export_report", "False", 0, <<>>)
          ELSE IF out_path.ext = ".json"
          THEN IF ~out_path.dir_exists
               THEN \* open(out_path, 'w') raises FileNotFoundError
                    /\ reports' = reports
                    /\ Returns("export_report", "raise", 0, <<>>)
               ELSE IF ~Dumpable(data)
               THEN \* json.dump raises TypeError with the file open
                    /\ reports' = [reports EXCEPT ![out_path] =
                                      Report("partial", DumpedPrefix(data))]
                    /\ Returns("export_report", "raise", 0, <<>>)
               ELSE /\ reports' = [reports EXCEPT ![out_path] =
                                      Report("complete", data)]
                    /\ Returns("export_report", "True", 0, <<>>)
          ELSE IF out_path.ext = ".csv"
          THEN IF data = <<>>
               THEN /\ reports' = reports
                    /\ Returns("export_report", "False", 0, <<>>)
               ELSE IF ~out_path.dir_exists
               THEN /\ reports' = reports
                    /\ Returns("export_report", "raise", 0, <<>>)
               ELSE /\ reports' = [reports EXCEPT ![out_path] =
                                      Report("complete", data)]
                    /\ Returns("export_report", "True", 0, <<"EXPORT">>)
          ELSE /\ reports' = reports
               /\ Returns("export_report", "False", 0, <<>>)

\* shutil.copy(data_path, backup_path): it completes ("copied"), fails before
\* it opens the backup file for writing ("refused": an unreadable source, a
\* backup path that cannot be opened), or fails after it has truncated the
\* backup file and written part of the data ("torn": no space left, file too
\* large)
CopyOutcomes == {"copied", "refused", "torn"}

backup_data ==
    /\ UNCHANGED <<mem, file, reports>>
    /\ IF file_status = "absent"
       THEN /\ UNCHANGED <<backup_status, backup_doc>>
            /\ Returns("backup_data", "Backup failed - data file not found", 0,
                       <<"MANUAL_BACKUP_FAIL">>)
       ELSE \E outcome \in CopyOutcomes :
               CASE outcome = "copied" ->
                      /\ backup_status' = file_status
                      /\ backup_doc' = file_data
                      /\ Returns("backup_data", "Backup created successfully", 0,
                                 <<"MANUAL_BACKUP">>)
                 [] outcome = "refused" ->
                      /\ UNCHANGED <<backup_status, backup_doc>>
                      /\ Returns("backup_data", "Backup failed due to error", 0,
                                 <<"MANUAL_BACKUP_FAIL">>)
                 [] outcome = "torn" ->
                      /\ backup_status' = "corrupt"
                      /\ backup_doc' = EmptyDoc
                      /\ Returns("backup_data", "Backup failed due to error", 0,
                                 <<"MANUAL_BACKUP_FAIL">>)

\* an edit_student that also rewrites the name kept in the student's payments
edit_student_renames_payments(student_id, name) ==
    LET si == find_student_by_id(student_id)
    IN IF si = 0
       THEN /\ UNCHANGED <<mem, file>>
            /\ Result("edit_student", "False", 0, <<>>)
       ELSE /\ students' = IF name # "" THEN [students EXCEPT ![si].name = name]
                           ELSE students
            /\ finance_log' = [i \in 1..Len(finance_log) |->
                                 IF finance_log[i].student_id = student_id /\ name # ""
                                 THEN [finance_log[i] EXCEPT !.student_name = name]
                                 ELSE finance_log[i]]
            /\ UNCHANGED <<teachers, courses, attendance_log, instruments, admin,
                           admins, staff, next_student_id,
                           next_teacher_id, next_admin_id, next_staff_id>>
            /\ save_data
            /\ Result("edit_student", "True", 0, <<SaveTag', "EDIT_STUDENT">>)

edit_student(student_id, name) ==
    LET si == find_student_by_id(student_id)
    IN IF si = 0
       THEN /\ UNCHANGED <<mem, file>>
            /\ Result("edit_student", "False", 0, <<>>)
       ELSE /\ students' = IF name # "" THEN [students EXCEPT ![si].name = name]
                           ELSE students
            /\ UNCHANGED <<teachers, courses, attendance_log, instruments, admin,
                           admins, staff, finance_log, next_student_id,
                           next_teacher_id, next_admin_id, next_staff_id>>
            /\ save_data
            /\ Result("edit_student", "True", 0, <<SaveTag', "EDIT_STUDENT">>)

\* an edit_teacher that assigns both fields whatever was supplied
edit_teacher_assigns_all(teacher_id, name, speciality) ==
    LET ti == find_teacher_by_id(teacher_id)
    IN IF ti = 0
       THEN /\ UNCHANGED <<mem, file>>
            /\ Result("edit_teacher", "False", 0, <<>>)
       ELSE /\ teachers' = [teachers EXCEPT ![ti].name = name,
                                            ![ti].speciality = speciality]
            /\ UNCHANGED <<students, courses, attendance_log, instruments, admin,
                           admins, staff, finance_log, next_student_id,
                           next_teacher_id, next_admin_id, next_staff_id>>
            /\ save_data
            /\ Result("edit_teacher", "True", 0, <<SaveTag', "EDIT_TEACHER">>)

edit_teacher(teacher_id, name, speciality) ==
    LET ti == find_teacher_by_id(teacher_id)
    IN IF ti = 0
       THEN /\ UNCHANGED <<mem, file>>
            /\ Result("edit_teacher", "False", 0, <<>>)
       ELSE /\ teachers' = [teachers EXCEPT
                              ![ti].name = IF name # "" THEN name ELSE @,
                              ![ti].speciality = IF speciality # "" THEN speciality
                                                 ELSE @]
            /\ UNCHANGED <<students, courses, attendance_log, instruments, admin,
                           admins, staff, finance_log, next_student_id,
                           next_teacher_id, next_admin_id, next_staff_id>>
            /\ save_data
            /\ Result("edit_teacher", "True", 0, <<SaveTag', "EDIT_TEACHER">>)

(***************************************************************************)
(* Administrator and staff accounts, instruments.                          *)
(***************************************************************************)
add_admin(username, password) ==
    /\ Len(admin) < MaxAdmins
    /\ admin' = Append(admin, AdminUser([id |-> next_admin_id,
                                         username |-> username,
                                         password |-> password]))
    /\ next_admin_id' = next_admin_id + 1
    /\ UNCHANGED <<students, teachers, courses, attendance_log, instruments, admins,
                   staff, finance_log, next_student_id, next_teacher_id,
                   next_staff_id>>
    /\ save_data
    /\ Result("add_admin", "entity", next_admin_id, <<SaveTag', "ADD_ADMIN">>)

add_staff(name, password) ==
    /\ Len(staff) < MaxStaff
    /\ staff' = Append(staff, StaffUser([id |-> next_staff_id, name |-> name,
                                         password |-> password]))
    /\ next_staff_id' = next_staff_id + 1
    /\ UNCHANGED <<students, teachers, courses, attendance_log, instruments, admin,
                   admins, finance_log, next_student_id, next_teacher_id,
                   next_admin_id>>
    /\ save_data
    /\ Result("add_staff", "entity", next_staff_id, <<SaveTag', "ADD_STAFF">>)

remove_admin(admin_id) ==
    LET ai == find_admin_by_id(admin_id)
    IN IF ai = 0
       THEN /\ UNCHANGED <<mem, file>>
            /\ Result("remove_admin", "False", 0, <<>>)
       ELSE /\ admin' = RemoveAt(admin, ai)
            /\ UNCHANGED <<students, teachers, courses, attendance_log, instruments,
                           admins, staff, finance_log, next_student_id,
                           next_teacher_id, next_admin_id, next_staff_id>>
            /\ save_data
            /\ Result("remove_admin", "True", 0, <<"REMOVE_ADMIN", SaveTag'>>)

remove_staff(staff_id) ==
    LET si == find_staff_by_id(staff_id)
    IN IF si = 0
       THEN /\ UNCHANGED <<mem, file>>
            /\ Result("remove_staff", "False", 0, <<>>)
       ELSE /\ staff' = RemoveAt(staff, si)
            /\ UNCHANGED <<students, teachers, courses, attendance_log, instruments,
                           admin, admins, finance_log, next_student_id,
                           next_teacher_id, next_admin_id, next_staff_id>>
            /\ save_data
            /\ Result("remove_staff", "True", 0, <<"REMOVE_STAFF", SaveTag'>>)

\* an empty string stands for an argument left out (None) or given empty
edit_admin(admin_id, username, password) ==
    LET ai == find_admin_by_id(admin_id)
    IN IF ai = 0
       THEN /\ UNCHANGED <<mem, file>>
            /\ Result("edit_admin", "False", 0, <<>>)
       ELSE /\ admin' = [admin EXCEPT
                           ![ai].username = IF username # "" THEN username ELSE @,
                           ![ai].password = IF password # "" THEN password ELSE @]
            /\ UNCHANGED <<students, teachers, courses, attendance_log, instruments,
                           admins, staff, finance_log, next_student_id,
                           next_teacher_id, next_admin_id, next_staff_id>>
            /\ save_data
            /\ Result("edit_admin", "True", 0, <<SaveTag', "EDIT_ADMIN">>)

edit_staff(staff_id, name, new_password) ==
    LET si == find_staff_by_id(staff_id)
    IN IF si = 0
       THEN /\ UNCHANGED <<mem, file>>
            /\ Result("edit_staff", "False", 0, <<>>)
       ELSE /\ staff' = [staff EXCEPT
                           ![si].name = IF name # "" THEN name ELSE @,
                           ![si].password = IF new_password # "" THEN new_password
                                            ELSE @]
            /\ UNCHANGED <<students, teachers, courses, attendance_log, instruments,
                           admin, admins, finance_log, next_student_id,
                           next_teacher_id, next_admin_id, next_staff_id>>
            /\ save_data
            /\ Result("edit_staff", "True", 0, <<SaveTag', "EDIT_STAFF">>)

add_instrument(instrument_name) ==
    IF Contains(instruments, instrument_name)
    THEN /\ UNCHANGED <<mem, file>>
         /\ Result("add_instrument", "False", 0, <<>>)
    ELSE /\ instruments' = Append(instruments, instrument_name)
         /\ UNCHANGED <<students, teachers, courses, attendance_log, admin, admins,
                        staff, finance_log, next_student_id, next_teacher_id,
                        next_admin_id, next_staff_id>>
         /\ save_data
         /\ Result("add_instrument", "True", 0, <<SaveTag', "ADD_INSTRUMENT">>)

remove_instrument(instrument_name) ==
    IF ~Contains(instruments, instrument_name)
    THEN /\ UNCHANGED <<mem, file>>
         /\ Result("remove_instrument", "False", 0, <<>>)
    ELSE /\ instruments' = ListRemove(instruments, instrument_name)
         /\ UNCHANGED <<students, teachers, courses, attendance_log, admin, admins,
                        staff, finance_log, next_student_id, next_teacher_id,
                        next_admin_id, next_staff_id>>
         /\ save_data
         /\ Result("remove_instrument", "True", 0,
                   <<"REMOVE_INSTRUMENT", SaveTag'>>)

edit_instrument(old_name, new_name) ==
    IF ~Contains(instruments, old_name) \/ Contains(instruments, new_name)
    THEN /\ UNCHANGED <<mem, file>>
         /\ Result("edit_instrument", "False", 0, <<>>)
    ELSE /\ instruments' = [instruments EXCEPT ![IndexOf(instruments, old_name)] =
                                                 new_name]
         /\ UNCHANGED <<students, teachers, attendance_log, admin, admins, staff,
                        finance_log, next_student_id, next_teacher_id,
                        next_admin_id, next_staff_id>>
         /\ IF courses # <<>> /\ ~CourseHas("instrument")
            THEN \* the loop reads course.instrument on the first course, after
                 \* the list was changed and ahead of the save
                 /\ courses' = courses
                 /\ UNCHANGED file
                 /\ Result("edit_instrument", "raise", 0, <<>>)
            ELSE /\ courses' = [i \in 1..Len(courses) |->
                                  IF courses[i].instrument = old_name
                                  THEN [courses[i] EXCEPT !.instrument = new_name]
                                  ELSE courses[i]]
                 /\ save_data
                 /\ Result("edit_instrument", "True", 0,
                           <<SaveTag', "EDIT_INSTRUMENT">>)

\* AdminUser.authenticate
authenticate(account, input_username, input_password) ==
    account.username = input_username /\ account.password = input_password

\* a sign-in that compares the username alone
sign_in_admin_username_only(username, password) ==
    /\ UNCHANGED <<mem, file>>
    /\ IF \E i \in 1..Len(admin) : admin[i].username = username
       THEN Result("sign_in_admin", "True", 0, <<"LOGIN">>)
       ELSE Result("sign_in_admin", "False", 0, <<"LOGIN_FAIL">>)

sign_in_admin(username, password) ==
    /\ UNCHANGED <<mem, file>>
    /\ IF \E i \in 1..Len(admin) : authenticate(admin[i], username, password)
       THEN Result("sign_in_admin", "True", 0, <<"LOGIN">>)
       ELSE Result("sign_in_admin", "False", 0, <<"LOGIN_FAIL">>)

sign_in_staff(username, password) ==
    /\ UNCHANGED <<mem, file>>
    /\ IF \E i \in 1..Len(staff) :
             staff[i].name = username /\ staff[i].password = password
       THEN Result("sign_in_staff", "True", 0, <<"LOGIN">>)
       ELSE Result("sign_in_staff", "False", 0, <<"LOGIN_FAIL">>)

(***************************************************************************)
(* Construction: __init__ resets the collections and counters, loads the   *)
(* data file, and adds the default administrator when self.admin is empty. *)
(***************************************************************************)
DefaultAdmin ==
    AdminUser([id |-> AdminIdSeed, username |-> "admin", password |-> "password"])

\* self.admin after _load_data: _load_data assigns self.admins, never self.admin
admin_after_load(loaded) == <<>>

\* the in-memory state __init__ leaves, given the data file it finds
Constructed(status, data) ==
    LET loaded == load_data(status, data)
        a0 == admin_after_load(loaded)
    IN [students |-> loaded.students, teachers |-> loaded.teachers,
        courses |-> loaded.courses, attendance_log |-> loaded.attendance_log,
        instruments |-> loaded.instruments, admins |-> loaded.admins,
        staff |-> loaded.staff, finance_log |-> loaded.finance_log,
        admin |-> IF a0 = <<>> THEN <<DefaultAdmin>> ELSE a0,
        next_admin_id |-> IF a0 = <<>> THEN AdminIdSeed + 1 ELSE AdminIdSeed,
        \* the data file is rewritten by the missing-file and corrupt-file
        \* branches of _load_data and by add_admin("admin", "password")
        saved |-> status # "ok" \/ a0 = <<>>]

\* the document the data file holds once __init__ has run
ConstructedFile(status, data) ==
    LET c == Constructed(status, data)
    IN IF c.saved
       THEN data_to_save(c.students, c.teachers, c.courses, c.attendance_log,
                         c.instruments, c.admin, c.staff, c.finance_log,
                         StudentIdSeed, TeacherIdSeed, c.next_admin_id, StaffIdSeed)
       ELSE data

\* teacher records as TeacherUser.__dict__ dumps them
SeedTeachers ==
    << [id |-> TeacherIdSeed, name |-> "Low Yinn Ean", speciality |-> "Piano",
        username |-> "low", password |-> "pw"],
       [id |-> TeacherIdSeed + 1, name |-> "Alicia", speciality |-> "Violin",
        username |-> "alicia", password |-> "pw"],
       [id |-> TeacherIdSeed + 2, name |-> "Shuen", speciality |-> "Piano",
        username |-> "shuen", password |-> "pw"] >>

\* a data file in the layout _save_data writes, holding three teachers
SeedDoc ==
    data_to_save(<<>>, SeedTeachers, <<>>, <<>>, <<>>, <<DefaultAdmin>>, <<>>, <<>>,
                 StudentIdSeed, TeacherIdSeed + 3, AdminIdSeed + 1, StaffIdSeed)

\* the data file the first registry is constructed against
InitialFiles == { <<"absent", EmptyDoc>>, <<"corrupt", EmptyDoc>>, <<"ok", SeedDoc>> }

\* the tags __init__ logs: those of _load_data, then those of
\* add_admin("admin", "password")
init_tags(status, data) ==
    load_tags(status, data)
       \o (IF admin_after_load(load_data(status, data)) = <<>>
           THEN <<"SAVE", "ADD_ADMIN">> ELSE <<>>)

Init ==
    \E f \in InitialFiles :
        LET c == Constructed(f[1], f[2])
        IN /\ students = c.students
           /\ teachers = c.teachers
           /\ courses = c.courses
           /\ attendance_log = c.attendance_log
           /\ instruments = c.instruments
           /\ admin = c.admin
           /\ admins = c.admins
           /\ staff = c.staff
           /\ finance_log = c.finance_log
           /\ next_student_id = StudentIdSeed
           /\ next_teacher_id = TeacherIdSeed
           /\ next_admin_id = c.next_admin_id
           /\ next_staff_id = StaffIdSeed
           /\ file_status = "ok"
           /\ file_data = ConstructedFile(f[1], f[2])
           /\ corrupt_backup = IF f[1] = "corrupt" THEN "latest" ELSE "absent"
           /\ call = "__init__"
           /\ ret = "None"
           /\ retId = 0
           /\ logged = init_tags(f[1], f[2])
           \* the log path does not exist before the first construction
           /\ log_first = header_check(LogAppend("", init_tags(f[1], f[2])))
           /\ returned = <<>>
           \* no backup and no report has been written yet
           /\ backup_status = "absent"
           /\ backup_doc = EmptyDoc
           /\ reports = [p \in ExportPaths |-> NoReport]

\* os.rename(data_path, data_path + ".corrupt") succeeds; where the target
\* exists it replaces it on POSIX and raises FileExistsError on Windows
RenameOutcomes == IF corrupt_backup = "absent" THEN {TRUE} ELSE {TRUE, FALSE}

\* a fresh ScheduleManager constructed on the same data file and on a log
\* file whose first line is `first` ("" when the log path does not exist).
\* The .corrupt file is "absent", or holds the file the latest malformed load
\* found ("latest"), or still holds an earlier one ("earlier").
construct(first) ==
    LET c == Constructed(file_status, file_data)
    IN /\ students' = c.students
       /\ teachers' = c.teachers
       /\ courses' = c.courses
       /\ attendance_log' = c.attendance_log
       /\ instruments' = c.instruments
       /\ admin' = c.admin
       /\ admins' = c.admins
       /\ staff' = c.staff
       /\ finance_log' = c.finance_log
       /\ next_student_id' = StudentIdSeed
       /\ next_teacher_id' = TeacherIdSeed
       /\ next_admin_id' = c.next_admin_id
       /\ next_staff_id' = StaffIdSeed
       /\ file_status' = "ok"
       /\ file_data' = ConstructedFile(file_status, file_data)
       /\ \E renamed \in RenameOutcomes :
             corrupt_backup' = IF file_status # "corrupt" THEN corrupt_backup
                               ELSE IF renamed THEN "latest" ELSE "earlier"
       /\ call' = "__init__"
       /\ ret' = "None"
       /\ retId' = 0
       /\ logged' = init_tags(file_status, file_data)
       /\ log_first' = header_check(LogAppend(first,
                                              init_tags(file_status, file_data)))
       /\ returned' = <<>>
       /\ UNCHANGED out

\* a fresh registry on the same data file and the same log file
restart == construct(log_first)

\* a fresh registry on the same data file and a log path that does not exist
restart_new_log == construct("")

\* an explicit manager._save_data()
force_save ==
    /\ UNCHANGED mem
    /\ save_data
    /\ Result("_save_data", "None", 0, <<SaveTag'>>)

(***************************************************************************)
(* The registry of students, teachers and courses: enrollment and the      *)
(* cascading removals, across restarts on the same data file.              *)
(***************************************************************************)
Session ==
    \/ \E n \in Names : add_student(n)
    \/ \E n \in Names, sp \in Specialities : add_teacher(n, sp)
    \/ \E n \in CourseNames, ins \in CourseInstruments, t \in TeacherIdInputs :
          add_course(n, ins, t)
    \/ \E s \in StudentIdInputs, c \in CourseIdInputs : enroll_student_in_course(s, c)
    \/ \E s \in StudentIdInputs, f \in CourseIdInputs, t \in CourseIdInputs :
          switch_student_course(s, f, t)
    \/ \E s \in StudentIdInputs : remove_student(s)
    \/ \E t \in TeacherIdInputs : remove_teacher(t)
    \/ \E c \in CourseIdInputs : remove_course(c)

\* one registry instance, from construction on
SpecSession == Init /\ [][Session]_vars

Next ==
    \/ Session
    \/ restart

Spec == Init /\ [][Next]_vars

\* teachers and their courses alone, across restarts
NextCourses ==
    \/ \E n \in Names, sp \in Specialities : add_teacher(n, sp)
    \/ \E n \in CourseNames, ins \in CourseInstruments, t \in TeacherIdInputs :
          add_course(n, ins, t)
    \/ \E t \in TeacherIdInputs : remove_teacher(t)
    \/ \E c \in CourseIdInputs : remove_course(c)
    \/ restart

SpecCourses == Init /\ [][NextCourses]_vars

(***************************************************************************)
(* The records kept on students and courses: names, lessons, payments and  *)
(* check-ins, with explicit saves and restarts.                            *)
(***************************************************************************)
\* these runs follow the records of a single student
NextRecords ==
    \/ \E n \in Names : students = <<>> /\ add_student(n)
    \/ \E s \in StudentIdInputs, n \in NewNames \cup {""} : edit_student(s, n)
    \/ \E s \in StudentIdInputs : remove_student(s)
    \/ \E n \in CourseNames, ins \in CourseInstruments :
          add_course(n, ins, TeacherIdSeed)
    \/ remove_teacher(TeacherIdSeed)
    \/ \E s \in StudentIdInputs, c \in CourseIdInputs : enroll_student_in_course(s, c)
    \/ \E c \in CourseIdInputs, ti \in Titles, d \in Days, tm \in Times,
          du \in Durations : add_lesson_to_course(c, ti, d, tm, du)
    \/ \E c \in CourseIdInputs, ti \in Titles : remove_lesson_from_course(c, ti)
    \/ \E s \in StudentIdInputs, c \in CourseIdInputs, ts \in Timestamps :
          check_in_student(s, c, ts)
    \/ \E s \in StudentIdInputs, am \in NumberAmounts, m \in Methods,
          ts \in Timestamps : record_payment(s, am, m, ts)
    \/ \E s \in StudentIdInputs, am \in StringAmounts, m \in Methods,
          ts \in Timestamps : record_payment_str(s, am, m, ts)
    \/ \E s \in StudentIdInputs, m \in Methods : record_payment_none(s, m)
    \/ force_save
    \/ restart

SpecRecords == Init /\ [][NextRecords]_vars

(***************************************************************************)
(* Loading and saving under failure: data files the registry did not       *)
(* write, and arguments json.dump cannot serialize.                        *)
(***************************************************************************)
\* a parseable document whose teacher record lacks the username and password
\* that TeacherUser.__init__ requires
ForeignDoc ==
    [students |-> << [id |-> StudentIdSeed, name |-> "Alicia",
                      enrolled_course_ids |-> <<1>>] >>,
     teachers |-> << [id |-> TeacherIdSeed, name |-> "Low Yinn Ean",
                      speciality |-> "Piano"] >>,
     courses |-> << [id |-> 1, exam_body |-> "Piano Basics", subject |-> "Piano",
                     teacher_id |-> TeacherIdSeed,
                     enrolled_student_ids |-> <<StudentIdSeed>>,
                     lessons |-> <<>>] >>,
     instruments |-> <<"Piano">>]

\* data files a registry can be constructed against
FoundFiles ==
    { <<"absent", EmptyDoc>>, <<"corrupt", EmptyDoc>>, <<"undecodable", EmptyDoc>>,
      <<"ok", ForeignDoc>> }

\* the data file is replaced from outside while no registry call runs
replace_file(f) ==
    /\ file_status' = f[1]
    /\ file_data' = f[2]
    /\ UNCHANGED <<mem, corrupt_backup, out, log_first, call, ret, retId, logged,
                   returned>>

NextLoad ==
    \/ \E f \in FoundFiles : replace_file(f)
    \/ restart
    \/ restart_new_log
    \/ \E n \in Names : students = <<>> /\ add_student(n)
    \/ \E s \in StudentIdInputs, n \in NewNames : edit_student(s, n)
    \/ \E n \in CourseNames, ins \in CourseInstruments :
          add_course(n, ins, TeacherIdSeed)
    \/ \E s \in StudentIdInputs, m \in Methods \cup {NotJSON},
          ts \in Timestamps : record_payment(s, 2500, m, ts)

SpecLoad == Init /\ [][NextLoad]_vars

(***************************************************************************)
(* Accounts and instruments, across restarts on the same data file.        *)
(***************************************************************************)
NextAccounts ==
    \/ \E u \in AdminNames, pw \in Passwords : add_admin(u, pw)
    \/ \E a \in AdminIdInputs : remove_admin(a)
    \/ \E a \in AdminIdInputs, u \in NewAdminNames \cup {""},
          pw \in NewPasswords \cup {""} : edit_admin(a, u, pw)
    \/ \E n \in StaffNames, pw \in Passwords : add_staff(n, pw)
    \/ \E st \in StaffIdInputs : remove_staff(st)
    \/ \E st \in StaffIdInputs, n \in NewNames \cup {""},
          pw \in NewPasswords \cup {""} : edit_staff(st, n, pw)
    \/ \E ins \in Instruments : add_instrument(ins)
    \/ \E ins \in Instruments : remove_instrument(ins)
    \/ restart

SpecAccounts == Init /\ [][NextAccounts]_vars

\* the days lessons are added on and rosters are asked for
LessonDays == {"Monday", "Funday"}
RosterDays == {"Monday", " MONDAY ", "Tuesday", "Funday", NonString}

\* courses, their lessons and rosters, and the daily roster
NextLessons ==
    \/ \E n \in Names : students = <<>> /\ add_student(n)
    \/ \E s \in StudentIdInputs : remove_student(s)
    \/ \E n \in CourseNames, ins \in CourseInstruments :
          add_course(n, ins, TeacherIdSeed)
    \/ \E s \in StudentIdInputs, c \in CourseIdInputs : enroll_student_in_course(s, c)
    \/ \E c \in CourseIdInputs, ti \in Titles, d \in LessonDays, tm \in Times,
          du \in Durations : add_lesson_to_course(c, ti, d, tm, du)
    \/ \E c \in CourseIdInputs, ti \in Titles : remove_lesson_from_course(c, ti)
    \/ \E d \in RosterDays : get_daily_roster(d)

SpecLessons == Init /\ [][NextLessons]_vars

\* the instrument list and the courses naming instruments
NextInstruments ==
    \/ \E ins \in Instruments : add_instrument(ins)
    \/ \E ins \in Instruments : remove_instrument(ins)
    \/ \E old \in Instruments, new \in Instruments \cup {"Harp"} :
          edit_instrument(old, new)
    \/ \E n \in CourseNames, ins \in CourseInstruments :
          add_course(n, ins, TeacherIdSeed)
    \/ restart

SpecInstruments == Init /\ [][NextInstruments]_vars

NewSpecialities == {"Violin"}

\* the edits of students, teachers and accounts
NextEdits ==
    \/ \E n \in Names : students = <<>> /\ add_student(n)
    \/ \E n \in CourseNames, ins \in CourseInstruments :
          courses = <<>> /\ add_course(n, ins, TeacherIdSeed)
    \/ \E s \in StudentIdInputs, c \in CourseIdInputs : enroll_student_in_course(s, c)
    \/ \E s \in StudentIdInputs, n \in NewNames \cup {""} : edit_student(s, n)
    \/ \E n \in NewNames \cup {""}, sp \in NewSpecialities \cup {""} :
          edit_teacher(TeacherIdSeed, n, sp)
    \/ \E a \in AdminIdInputs, u \in NewAdminNames \cup {""},
          pw \in NewPasswords \cup {""} : edit_admin(a, u, pw)
    \/ \E n \in StaffNames, pw \in Passwords : add_staff(n, pw)
    \/ \E st \in StaffIdInputs, n \in NewNames \cup {""},
          pw \in NewPasswords \cup {""} : edit_staff(st, n, pw)

SpecEdits == Init /\ [][NextEdits]_vars

\* a data file that carries check-ins under the key _load_data reads
ArchiveDoc ==
    [students |-> << [id |-> StudentIdSeed, name |-> "Alicia",
                      enrolled_course_ids |-> <<>>] >>,
     teachers |-> SeedTeachers,
     finance_log |-> <<>>,
     attendance_log |-> << [student_id |-> StudentIdSeed, course_id |-> 1,
                            course_name |-> "Piano Basics",
                            timestamp |-> "T0"] >>]

\* payments and check-ins while students, courses and teachers are edited
\* and removed
NextSnapshots ==
    \/ \E n \in Names : students = <<>> /\ add_student(n)
    \/ \E s \in StudentIdInputs, n \in NewNames : edit_student(s, n)
    \/ \E s \in StudentIdInputs : remove_student(s)
    \/ \E n \in CourseNames, ins \in CourseInstruments :
          courses = <<>> /\ add_course(n, ins, TeacherIdSeed)
    \/ \E c \in CourseIdInputs : remove_course(c)
    \/ remove_teacher(TeacherIdSeed)
    \/ \E s \in StudentIdInputs, c \in CourseIdInputs, ts \in Timestamps :
          check_in_student(s, c, ts)
    \/ \E s \in StudentIdInputs, m \in Methods, ts \in Timestamps :
          record_payment(s, 2500, m, ts)
    \/ replace_file(<<"ok", ArchiveDoc>>)
    \/ restart

SpecSnapshots == Init /\ [][NextSnapshots]_vars

\* reports of the payments and the attendance
NextExport ==
    \/ \E n \in Names : students = <<>> /\ add_student(n)
    \/ \E s \in StudentIdInputs, m \in Methods \cup {NotJSON}, ts \in Timestamps :
          record_payment(s, 2500, m, ts)
    \/ \E k \in Kinds, p \in ExportPaths : export_report(k, p)
    \/ restart

SpecExport == Init /\ [][NextExport]_vars

\* the data file is deleted from outside while no registry call runs
delete_file == replace_file(<<"absent", EmptyDoc>>)

\* manual backups between changes of the data file
NextBackup ==
    \/ \E n \in Names : students = <<>> /\ add_student(n)
    \/ \E s \in StudentIdInputs, n \in NewNames : edit_student(s, n)
    \/ \E s \in StudentIdInputs, m \in Methods \cup {NotJSON}, ts \in Timestamps :
          record_payment(s, 2500, m, ts)
    \/ delete_file
    \/ backup_data
    \/ restart

SpecBackup == Init /\ [][NextBackup]_vars

\* string amounts, among them one that float() turns into nan
PaymentTexts == StringAmounts \cup {"nan"}

\* students and their payments, across restarts
NextPayments ==
    \/ \E n \in Names : add_student(n)
    \/ \E s \in StudentIdInputs, n \in NewNames : edit_student(s, n)
    \/ \E s \in StudentIdInputs : remove_student(s)
    \/ \E s \in StudentIdInputs, am \in NumberAmounts, m \in Methods,
          ts \in Timestamps : record_payment(s, am, m, ts)
    \/ \E s \in StudentIdInputs, am \in PaymentTexts, m \in Methods,
          ts \in Timestamps : record_payment_str(s, am, m, ts)
    \/ \E s \in StudentIdInputs, m \in Methods : record_payment_none(s, m)
    \/ restart

SpecPayments == Init /\ [][NextPayments]_vars

\* the payments students have made and the histories asked for
NextHistory ==
    \/ \E n \in Names : add_student(n)
    \/ \E s \in StudentIdInputs : remove_student(s)
    \/ \E s \in StudentIdInputs, m \in Methods, ts \in Timestamps :
          record_payment(s, 2500, m, ts)
    \/ \E s \in StudentIdInputs, m \in Methods, ts \in Timestamps :
          record_payment_str(s, "200.50", m, ts)
    \/ \E s \in StudentIdInputs : get_payment_history(s)
    \/ restart

SpecHistory == Init /\ [][NextHistory]_vars

\* what a caller types at a sign-in prompt
SignInInputs ==
    {<<"admin", "password">>, <<"alpha", "pw1">>, <<"alpha", "pw2">>,
     <<"Shuen", "pw1">>, <<NonString, "pw1">>,
     <<"alpha", NonString>>}

\* accounts and the sign-ins against them
NextSignIn ==
    \/ \E u \in AdminNames, pw \in Passwords : add_admin(u, pw)
    \/ \E a \in AdminIdInputs : remove_admin(a)
    \/ \E a \in AdminIdInputs, pw \in NewPasswords : edit_admin(a, "", pw)
    \/ \E n \in StaffNames, pw \in Passwords : add_staff(n, pw)
    \/ \E st \in StaffIdInputs : remove_staff(st)
    \/ \E in \in SignInInputs : sign_in_admin(in[1], in[2])
    \/ \E in \in SignInInputs : sign_in_staff(in[1], in[2])
    \/ restart

SpecSignIn == Init /\ [][NextSignIn]_vars

(***************************************************************************)
(* Properties.                                                             *)
(***************************************************************************)
StudentHasCourse(i, cid) == Contains(students[i].enrolled_course_ids, cid)
CourseHasStudent(j, sid) == Contains(courses[j].enrolled_student_ids, sid)

\* C1: in every reachable state a student's id is in a course's
\* enrolled_student_ids if and only if that course's id is in the student's
\* enrolled_course_ids.
C1_EnrollmentSymmetric ==
    \A i \in 1..Len(students), j \in 1..Len(courses) :
        CourseHasStudent(j, students[i].id) <=> StudentHasCourse(i, courses[j].id)

\* C2: no two courses present in the registry have the same id.
C2_CourseIdsUnique ==
    \A i, j \in 1..Len(courses) : i # j => courses[i].id # courses[j].id

\* the ids this registry instance has issued so far in a collection
IssuedBy(op) ==
    CASE op = "add_student" -> StudentIdSeed .. (next_student_id - 1)
      [] op = "add_teacher" -> TeacherIdSeed .. (next_teacher_id - 1)
      [] op = "add_admin" -> AdminIdSeed .. (next_admin_id - 1)
      [] OTHER -> StaffIdSeed .. (next_staff_id - 1)

AddOps == {"add_student", "add_teacher", "add_admin", "add_staff"}

\* C3: every add_student, add_teacher, add_admin and add_staff returns an
\* entity whose id differs from every id this instance issued before in that
\* collection, and find_student_by_id of a new student's id finds that student.
C3_AddReturnsFreshEntity ==
    [][call' \in AddOps =>
          /\ ret' = "entity"
          /\ retId' \notin IssuedBy(call')
          /\ (call' = "add_student" =>
                 FindById(students', retId') = Len(students'))]_vars

\* the ids of the entities of a collection stored in the data file
StoredIds(key) == {file_data[key][i].id : i \in 1..Len(file_data[key])}

\* C4: an id issued by add_student, add_teacher, add_admin or add_staff differs
\* from the id of every entity of that collection stored in the data file the
\* registry was constructed on or has written since.
C4_CountersSurviveRestart ==
    [][(call' \in AddOps /\ ret' = "entity") =>
          retId' \notin StoredIds(CASE call' = "add_student" -> "students"
                                    [] call' = "add_teacher" -> "teachers"
                                    [] call' = "add_admin" -> "admin"
                                    [] OTHER -> "staff")]_vars

\* the ids of the courses a teacher owns
CourseIdsOf(teacher_id) ==
    {courses[j].id : j \in {k \in 1..Len(courses) : courses[k].teacher_id = teacher_id}}

\* C5: after remove_teacher(T) succeeds no course of T remains, no student's
\* enrolled_course_ids holds the id of a removed course, and T and the removed
\* courses' ids are no longer found; on an unknown id it returns False.
C5_RemoveTeacherCascades ==
    [][\A t \in TeacherIdInputs :
          remove_teacher(t) =>
             IF find_teacher_by_id(t) = 0
             THEN ret' = "False"
             ELSE /\ ret' = "True"
                  /\ FindById(teachers', t) = 0
                  /\ \A j \in 1..Len(courses') : courses'[j].teacher_id # t
                  /\ \A r \in CourseIdsOf(t) :
                        /\ FindById(courses', r) = 0
                        /\ \A i \in 1..Len(students') :
                              ~Contains(students'[i].enrolled_course_ids, r)]_vars

\* C6: in every reachable state every course's teacher_id is the id of a
\* teacher present in the registry.
C6_NoDanglingTeacher ==
    \A j \in 1..Len(courses) : find_teacher_by_id(courses[j].teacher_id) # 0

\* a teacher owning a course has been removed while another teacher's course stays
C6_Witness ==
    /\ call = "remove_teacher"
    /\ ret = "True"
    /\ courses # <<>>
    /\ file_data.courses = courses
    /\ Len(file_data.teachers) = Len(teachers)

\* C7: once the registry is constructed its administrator collection is never
\* empty.
C7_AdminNeverEmpty == admin # <<>>

\* C8: when the data file a fresh registry is constructed on stores at least
\* one administrator, the registry's administrators are exactly the stored ones.
C8_StoredAdminsKept ==
    [][(call' = "__init__" /\ file_data.admin # <<>>) =>
          admin' = file_data.admin]_vars

\* the state a fresh registry has after the current state is saved
Reloaded ==
    Constructed("ok", data_to_save(students, teachers, courses, attendance_log,
                                   instruments, admin, staff, finance_log,
                                   next_student_id, next_teacher_id,
                                   next_admin_id, next_staff_id))

\* C9: saving any reachable state and constructing a fresh registry on the
\* data file yields the same students, courses and payment records, field by
\* field.
C9_RoundTrip ==
    /\ Reloaded.students = students
    /\ Reloaded.courses = courses
    /\ Reloaded.finance_log = finance_log

\* a fresh registry holds a renamed, enrolled student, a course with a lesson
\* and a roster, and a payment
C9_Witness ==
    /\ call = "__init__"
    /\ finance_log # <<>>
    /\ \E i \in 1..Len(students) :
          /\ students[i].name \in NewNames
          /\ students[i].enrolled_course_ids # <<>>
    /\ \E j \in 1..Len(courses) :
          /\ courses[j].lessons # <<>>
          /\ courses[j].enrolled_student_ids # <<>>

\* C10: saving any reachable state and constructing a fresh registry on the
\* data file yields the same teachers, staff, administrators, instruments and
\* attendance log.
C10_EveryCollectionLoaded ==
    /\ Reloaded.teachers = teachers
    /\ Reloaded.staff = staff
    /\ Reloaded.admin = admin
    /\ Reloaded.instruments = instruments
    /\ Reloaded.attendance_log = attendance_log

\* the names of the mutating operations, as `call` records them
MutatingOps ==
    {"add_student", "add_teacher", "add_course", "enroll_student_in_course",
     "switch_student_course", "remove_student", "remove_teacher", "remove_course",
     "add_lesson_to_course", "remove_lesson_from_course", "check_in_student",
     "record_payment", "edit_student", "add_admin", "add_staff", "remove_admin",
     "remove_staff", "edit_admin", "edit_staff", "add_instrument",
     "remove_instrument"}

\* the document _save_data would write from the current in-memory state
CurrentDoc ==
    data_to_save(students, teachers, courses, attendance_log, instruments, admin,
                 staff, finance_log, next_student_id, next_teacher_id,
                 next_admin_id, next_staff_id)

\* C11: right after a mutating operation that reported success, and whose
\* write did not fail, the data file holds the dump of the current in-memory
\* state: nothing the operation changed is left unwritten.
C11_SavedAfterSuccess ==
    (call \in MutatingOps /\ ret \in {"entity", "True"} /\ Serializable)
        => (file_status = "ok" /\ file_data = CurrentDoc)

\* a payment has been recorded on a registry holding a course with a lesson,
\* which add_lesson_to_course had left unwritten
C11_Witness ==
    /\ call = "record_payment"
    /\ ret = "True"
    /\ \E j \in 1..Len(courses) : courses[j].lessons # <<>>
    /\ file_data.courses = courses

\* C12: a mutating operation that returns False or None leaves every
\* in-memory collection, every id counter and the data file as they were.
C12_FailureChangesNothing ==
    [][(call' \in MutatingOps /\ ret' \in {"False", "None"})
          => UNCHANGED <<mem, file>>]_vars

\* a payment has been refused on a registry holding an enrolled student
C12_Witness ==
    /\ call = "record_payment"
    /\ ret = "False"
    /\ \E i \in 1..Len(students) : students[i].enrolled_course_ids # <<>>
    /\ courses # <<>>

\* C13: enroll_student_in_course returns False, changing neither list, when
\* an id is unknown or the student is already enrolled in the course;
\* otherwise it returns True with the course id in the student's list and the
\* student id in the course's roster.
C13_EnrollContract ==
    [][\A s \in StudentIdInputs, c \in CourseIdInputs :
          enroll_student_in_course(s, c) =>
             LET si == find_student_by_id(s)
                 ci == find_course_by_id(c)
             IN IF si = 0 \/ ci = 0 \/ Contains(students[si].enrolled_course_ids, c)
                THEN /\ ret' = "False"
                     /\ students' = students
                     /\ courses' = courses
                ELSE /\ ret' = "True"
                     /\ Contains(students'[si].enrolled_course_ids, c)
                     /\ Contains(courses'[ci].enrolled_student_ids, s)]_vars

\* C14: switch_student_course returns False, changing nothing, when an id is
\* unknown, the student is not enrolled in the from-course or is already
\* enrolled in the to-course; otherwise it returns True with the student moved
\* on both sides and the moved state written to the data file.
C14_SwitchContract ==
    [][\A s \in StudentIdInputs, f \in CourseIdInputs, t \in CourseIdInputs :
          switch_student_course(s, f, t) =>
             LET si == find_student_by_id(s)
                 fi == find_course_by_id(f)
                 ti == find_course_by_id(t)
             IN IF \/ si = 0 \/ fi = 0 \/ ti = 0
                   \/ ~Contains(students[si].enrolled_course_ids, f)
                   \/ Contains(students[si].enrolled_course_ids, t)
                THEN /\ ret' = "False"
                     /\ UNCHANGED <<mem, file>>
                ELSE /\ ret' = "True"
                     /\ Contains(students'[si].enrolled_course_ids, t)
                     /\ ~Contains(students'[si].enrolled_course_ids, f)
                     /\ ~Contains(courses'[fi].enrolled_student_ids, s)
                     /\ Contains(courses'[ti].enrolled_student_ids, s)
                     /\ file_data' = CurrentDoc']_vars

\* C15: remove_course of an unknown id returns False; otherwise it returns
\* True, the id is no longer found and no student's enrolled_course_ids
\* holds it.
C15_RemoveCourseContract ==
    [][\A c \in CourseIdInputs :
          remove_course(c) =>
             IF find_course_by_id(c) = 0
             THEN ret' = "False"
             ELSE /\ ret' = "True"
                  /\ FindById(courses', c) = 0
                  /\ \A i \in 1..Len(students') :
                        ~Contains(students'[i].enrolled_course_ids, c)]_vars

\* C20: no mutating operation ends by raising: each returns a success value
\* or False / None.
C20_NoExceptionEscapes == call \in MutatingOps => ret # "raise"

Malformed == {"corrupt", "undecodable"}

\* every collection the data file feeds is empty
AllEmpty ==
    /\ students = <<>> /\ teachers = <<>> /\ courses = <<>> /\ staff = <<>>
    /\ instruments = <<>> /\ finance_log = <<>> /\ attendance_log = <<>>

\* C17: constructing a registry on a malformed data file does not raise; the
\* bad file ends up under the .corrupt name, every collection is reset to
\* empty, the empty state (with the default administrator added after it) is
\* written to the data path, and a LOAD_ERROR line is logged.
C17_MalformedFileHandled ==
    [][(restart /\ file_status \in Malformed) =>
          /\ ret' = "None"
          /\ corrupt_backup' = "latest"
          /\ AllEmpty'
          /\ admin' = <<DefaultAdmin>>
          /\ file_status' = "ok"
          /\ file_data' = CurrentDoc'
          /\ Contains(logged', "LOAD_ERROR")]_vars

\* C18: a load that fails for any reason leaves every collection empty.
C18_FailedLoadLeavesEmpty ==
    [][(restart /\ Contains(logged', "LOAD_ERROR")) => AllEmpty']_vars

\* C19: a mutating operation that changes the in-memory state while the
\* write of the data file fails logs SAVE_ERROR, does not raise and returns
\* its success value.
C19_SaveFailureSwallowed ==
    [][(call' \in MutatingOps /\ mem' # mem /\ ~Serializable') =>
          /\ Contains(logged', "SAVE_ERROR")
          /\ ret' \in {"entity", "True"}]_vars

\* the tags _save_data itself logs
SaveTags == {"SAVE", "SAVE_ERROR"}

\* the lines include one that is not _save_data's: the handler called
\* log_action with a tag of its own
HasOwnTag(tags) == \E i \in 1..Len(tags) : tags[i] \notin SaveTags

\* C21: every mutating operation that changes the in-memory state and writes
\* it to the data file also appends a log line carrying a tag of its own, and
\* no step changes the first line of an existing log file.
C21_OwnLogLine ==
    /\ [][(call' \in MutatingOps /\ mem' # mem /\ file_data' = CurrentDoc')
             => HasOwnTag(logged')]_vars
    /\ [][log_first # "" => log_first' = log_first]_vars

\* C22: a registry constructed against a log path that does not exist
\* leaves a log file whose first line is the header line; every log file of
\* these runs is created that way, so its first line is always the header.
C22_HeaderFirst == log_first = LogHeader

\* some account of the collection has exactly these credentials
Matches(accounts, key, u, p) ==
    \E i \in 1..Len(accounts) : accounts[i][key] = u /\ accounts[i].password = p

\* C23: sign_in_admin(u, p) returns True exactly when an administrator of
\* the collection has username u and password p, sign_in_staff(n, p) likewise
\* on name and password; success logs LOGIN and failure LOGIN_FAIL; a
\* non-string argument gives False; no collection and no file changes.
C23_SignInContract ==
    [][\A in \in SignInInputs :
          /\ (call' = "sign_in_admin" /\ sign_in_admin(in[1], in[2])) =>
                /\ ret' = IF Matches(admin, "username", in[1], in[2])
                          THEN "True" ELSE "False"
                /\ logged' = IF ret' = "True" THEN <<"LOGIN">> ELSE <<"LOGIN_FAIL">>
                /\ (NonString \in {in[1], in[2]} => ret' = "False")
                /\ UNCHANGED <<mem, file>>
          /\ (call' = "sign_in_staff" /\ sign_in_staff(in[1], in[2])) =>
                /\ ret' = IF Matches(staff, "name", in[1], in[2])
                          THEN "True" ELSE "False"
                /\ logged' = IF ret' = "True" THEN <<"LOGIN">> ELSE <<"LOGIN_FAIL">>
                /\ (NonString \in {in[1], in[2]} => ret' = "False")
                /\ UNCHANGED <<mem, file>>]_vars

\* a sign-in has been refused on a registry holding two administrators, one
\* of them with an edited password, and a staff account
C23_Witness ==
    /\ call = "sign_in_admin"
    /\ ret = "False"
    /\ logged = <<"LOGIN_FAIL">>
    /\ Len(admin) = 2
    /\ \E i \in 1..Len(admin) : admin[i].password \in NewPasswords
    /\ staff # <<>>

\* the text is the decimal notation of a number
Numeric(text) == FloatParses(text) /\ ~FloatOf(text).nan

\* the record a payment of `amount` by the student at position si appends
PaymentRecord(si, amount, method, timestamp) ==
    [student_id |-> students[si].id, student_name |-> students[si].name,
     amount |-> amount, method |-> method, timestamp |-> timestamp]

\* the payment is refused: False, the finance log as it was
Refused == ret' = "False" /\ finance_log' = finance_log

\* C24: record_payment returns False and leaves the finance log as it was
\* when the student id is unknown, when the amount does not parse as a number
\* (None and "nan" included) or when it is zero or negative; otherwise it
\* appends exactly one record holding the student id, the student's current
\* name, the amount as a number and the method.
C24_RecordPaymentContract ==
    [][\A s \in StudentIdInputs, m \in Methods, ts \in Timestamps :
          LET si == find_student_by_id(s)
          IN /\ \A am \in NumberAmounts :
                   record_payment(s, am, m, ts) =>
                      IF si = 0 \/ am <= 0 THEN Refused
                      ELSE finance_log' = Append(finance_log,
                              PaymentRecord(si, Float(am), m, ts))
             /\ \A text \in PaymentTexts :
                   record_payment_str(s, text, m, ts) =>
                      IF si = 0 \/ ~Numeric(text) \/ LeZero(FloatOf(text))
                      THEN Refused
                      ELSE finance_log' = Append(finance_log,
                              PaymentRecord(si, FloatOf(text), m, ts))
             /\ record_payment_none(s, m) => Refused]_vars

\* the positions of the records of the log that carry the student id
PositionsOf(log, student_id) ==
    {i \in 1..Len(log) : log[i].student_id = student_id}

\* h holds the records at the positions P of the log, in the log's order
IsSelection(h, log, P) ==
    /\ Len(h) = Cardinality(P)
    /\ \A i \in P : h[Cardinality({j \in P : j <= i})] = log[i]

C26_CheckInContract ==
    [][\A s \in StudentIdInputs, c \in CourseIdInputs, ts \in Timestamps :
          check_in_student(s, c, ts) =>
             IF find_student_by_id(s) = 0 \/ find_course_by_id(c) = 0
             THEN ret' = "False" /\ attendance_log' = attendance_log
             ELSE /\ ret' = "True"
                  /\ Len(attendance_log') = Len(attendance_log) + 1
                  /\ SubSeq(attendance_log', 1, Len(attendance_log)) = attendance_log
                  /\ attendance_log'[Len(attendance_log')].student_id = s
                  /\ attendance_log'[Len(attendance_log')].course_id = c]_vars

\* the day is one of the seven weekday names, whatever its case
ValidDay(day) == day # NonString /\ Strip(Lower(day)) \in valid_days

\* the lessons of all courses, as pairs of course position and lesson position
LessonsAt(day) ==
    {p \in (1..Len(courses)) \X (1..MaxLessons + 1) :
        /\ p[2] <= Len(courses[p[1]].lessons)
        /\ Lower(courses[p[1]].lessons[p[2]].day) = Strip(Lower(day))}

\* C27: get_daily_roster(day) returns the empty list for a day that is not a
\* weekday name; for a weekday it returns one row per lesson scheduled on
\* that day, each with students_enrolled equal to the present size of the
\* course's roster; it changes nothing.
C27_DailyRoster ==
    [][\A d \in RosterDays :
          get_daily_roster(d) =>
             /\ ret' = "list"
             /\ UNCHANGED <<mem, file>>
             /\ IF ~ValidDay(d) THEN returned' = <<>>
                ELSE /\ Len(returned') = Cardinality(LessonsAt(d))
                     /\ \A k \in 1..Len(returned') :
                           \E j \in 1..Len(courses) :
                              /\ returned'[k].course_id = courses[j].id
                              /\ returned'[k].students_enrolled =
                                    Len(courses[j].enrolled_student_ids)]_vars

\* C28: every lesson stored on a course has a day that is one of the seven
\* weekday names, whatever its case.
C28_LessonDayValid ==
    \A j \in 1..Len(courses) : \A i \in 1..Len(courses[j].lessons) :
        Lower(courses[j].lessons[i].day) \in valid_days

\* no name is twice in the instrument list
NoDuplicateInstrument ==
    \A i, j \in 1..Len(instruments) : i # j => instruments[i] # instruments[j]

\* C29: the instrument list never holds a name twice; edit_instrument(old,
\* new) returns False, changing nothing, when old is absent or new is present
\* (new = old included), and otherwise returns True having put new at old's
\* place and into the instrument of every course that named old, the other
\* courses being left as they were.
C29_InstrumentsUnique ==
    /\ []NoDuplicateInstrument
    /\ [][\A old \in Instruments, new \in Instruments \cup {"Harp"} :
             edit_instrument(old, new) =>
                IF ~Contains(instruments, old) \/ Contains(instruments, new)
                THEN ret' = "False" /\ UNCHANGED <<mem, file>>
                ELSE /\ ret' = "True"
                     /\ instruments' = [i \in 1..Len(instruments) |->
                                          IF instruments[i] = old THEN new
                                          ELSE instruments[i]]
                     /\ courses' = [i \in 1..Len(courses) |->
                                      IF courses[i].subject = old
                                      THEN [courses[i] EXCEPT !.subject = new]
                                      ELSE courses[i]]]_vars

\* the value a field has after an edit that was handed `given`
Edited(old, given) == IF given # "" THEN given ELSE old

\* the edit of an unknown id: False, nothing changed
EditRefused == ret' = "False" /\ UNCHANGED <<mem, file>>

\* C30: edit_student, edit_teacher, edit_admin and edit_staff return False
\* for an unknown id; otherwise they return True having overwritten only the
\* fields for which a non-empty value was supplied: the entity's id, its
\* other fields (a student's enrolled_course_ids among them), the other
\* entities of the collection and every other collection stay as they were.
C30_EditContract ==
    [][/\ call' = "edit_student" =>
             \A s \in StudentIdInputs, n \in NewNames \cup {""} :
                edit_student(s, n) =>
                   LET i == find_student_by_id(s)
                   IN IF i = 0 THEN EditRefused
                      ELSE /\ ret' = "True"
                           /\ students' = [students EXCEPT
                                             ![i].name = Edited(@, n)]
                           /\ UNCHANGED <<teachers, courses, attendance_log,
                                          instruments, admin, admins, staff,
                                          finance_log, next_student_id,
                                          next_teacher_id, next_admin_id,
                                          next_staff_id>>
       /\ call' = "edit_teacher" =>
             \A n \in NewNames \cup {""}, sp \in NewSpecialities \cup {""} :
                edit_teacher(TeacherIdSeed, n, sp) =>
                   LET i == find_teacher_by_id(TeacherIdSeed)
                   IN IF i = 0 THEN EditRefused
                      ELSE /\ ret' = "True"
                           /\ teachers' = [teachers EXCEPT
                                             ![i].name = Edited(@, n),
                                             ![i].speciality = Edited(@, sp)]
                           /\ UNCHANGED <<students, courses, attendance_log,
                                          instruments, admin, admins, staff,
                                          finance_log, next_student_id,
                                          next_teacher_id, next_admin_id,
                                          next_staff_id>>
       /\ call' = "edit_admin" =>
             \A a \in AdminIdInputs, u \in NewAdminNames \cup {""},
                pw \in NewPasswords \cup {""} :
                edit_admin(a, u, pw) =>
                   LET i == find_admin_by_id(a)
                   IN IF i = 0 THEN EditRefused
                      ELSE /\ ret' = "True"
                           /\ admin' = [admin EXCEPT
                                          ![i].username = Edited(@, u),
                                          ![i].password = Edited(@, pw)]
                           /\ UNCHANGED <<students, teachers, courses,
                                          attendance_log, instruments, admins,
                                          staff, finance_log, next_student_id,
                                          next_teacher_id, next_admin_id,
                                          next_staff_id>>
       /\ call' = "edit_staff" =>
             \A st \in StaffIdInputs, n \in NewNames \cup {""},
                pw \in NewPasswords \cup {""} :
                edit_staff(st, n, pw) =>
                   LET i == find_staff_by_id(st)
                   IN IF i = 0 THEN EditRefused
                      ELSE /\ ret' = "True"
                           /\ staff' = [staff EXCEPT
                                          ![i].name = Edited(@, n),
                                          ![i].password = Edited(@, pw)]
                           /\ UNCHANGED <<students, teachers, courses,
                                          attendance_log, instruments, admin,
                                          admins, finance_log, next_student_id,
                                          next_teacher_id, next_admin_id,
                                          next_staff_id>>]_vars

\* a teacher has been renamed with the speciality left out, on a registry
\* holding a renamed student who is enrolled in a course
C30_Witness ==
    /\ call = "edit_teacher"
    /\ ret = "True"
    /\ \E i \in 1..Len(teachers) :
          /\ teachers[i].name \in NewNames
          /\ teachers[i].speciality \in Specialities
    /\ \E i \in 1..Len(students) :
          /\ students[i].name \in NewNames
          /\ students[i].enrolled_course_ids # <<>>

\* the record sequence export_report selects
Selected(kind) == IF kind = "payments" THEN finance_log ELSE attendance_log

\* C31: export_report returns False and writes no file when kind is neither
\* payments nor attendance, when the path ends in neither .json nor .csv, or
\* when it ends in .csv and the selected records are empty; otherwise it
\* writes all the selected records and returns True; it never raises and
\* never changes the registry or the data file.
C31_ExportContract ==
    [][call' = "export_report" =>
          \A k \in Kinds, p \in ExportPaths :
             export_report(k, p) =>
                /\ ret' # "raise"
                /\ UNCHANGED <<mem, file>>
                /\ IF \/ k \notin {"payments", "attendance"}
                      \/ p.ext \notin {".json", ".csv"}
                      \/ (p.ext = ".csv" /\ Selected(k) = <<>>)
                   THEN ret' = "False" /\ reports' = reports
                   ELSE /\ ret' = "True"
                        /\ reports'[p] = Report("complete", Selected(k))
                        /\ \A q \in ExportPaths \ {p} : reports'[q] = reports[q]]_vars

\* C32: backup_data makes the backup file a copy of the data file as it is
\* and returns the success string; when the data file does not exist or the
\* copy fails it returns a failure string and leaves the backup as it was;
\* it never raises and never changes the registry or the data file.
C32_BackupContract ==
    [][backup_data =>
          /\ ret' # "raise"
          /\ UNCHANGED <<mem, file>>
          /\ IF ret' = "Backup created successfully"
             THEN /\ file_status # "absent"
                  /\ backup_status' = file_status
                  /\ backup_doc' = file_data
             ELSE UNCHANGED <<backup_status, backup_doc>>]_vars

\* list a is an initial part of list b
IsPrefix(a, b) == Len(a) <= Len(b) /\ SubSeq(b, 1, Len(a)) = a

\* C33: within one registry instance no operation modifies or removes a
\* payment or attendance record: across every step other than the
\* construction of a fresh registry, the finance log and the attendance log
\* before the step are initial parts of the logs after it.
C33_RecordsKept ==
    [][call' # "__init__" =>
          /\ IsPrefix(finance_log, finance_log')
          /\ IsPrefix(attendance_log, attendance_log')]_vars

\* a student has been removed while a payment and a check-in carrying the
\* student's id and former name remain in the logs
C33_Witness ==
    /\ call = "remove_student"
    /\ ret = "True"
    /\ students = <<>>
    /\ \E i \in 1..Len(finance_log) :
          /\ finance_log[i].student_id = StudentIdSeed
          /\ finance_log[i].student_name \in Names
    /\ \E i \in 1..Len(attendance_log) :
          attendance_log[i].student_id = StudentIdSeed

\* no value occurs twice in the list
NoDuplicates(seq) == \A i, j \in 1..Len(seq) : seq[i] = seq[j] => i = j

\* C34: no student's enrolled_course_ids holds a course id twice and no
\* course's enrolled_student_ids holds a student id twice.
C34_NoDuplicateEnrollment ==
    /\ \A i \in 1..Len(students) : NoDuplicates(students[i].enrolled_course_ids)
    /\ \A j \in 1..Len(courses) : NoDuplicates(courses[j].enrolled_student_ids)

\* C35: every id in a course's enrolled_student_ids is the id of a current
\* student and every id in a student's enrolled_course_ids is the id of a
\* current course.
C35_EnrollmentsRefer ==
    /\ \A j \in 1..Len(courses) : \A k \in 1..Len(courses[j].enrolled_student_ids) :
          find_student_by_id(courses[j].enrolled_student_ids[k]) # 0
    /\ \A i \in 1..Len(students) : \A k \in 1..Len(students[i].enrolled_course_ids) :
          find_course_by_id(students[i].enrolled_course_ids[k]) # 0

\* position of the first lesson with the title, 0 if there is none
FirstWithTitle(lessons, title) ==
    IF \E i \in 1..Len(lessons) : lessons[i].title = title
    THEN CHOOSE i \in 1..Len(lessons) :
            /\ lessons[i].title = title
            /\ \A j \in 1..(i-1) : lessons[j].title # title
    ELSE 0

\* C36: remove_lesson_from_course returns False, changing nothing, when the
\* course is unknown or has no lesson with exactly the title; otherwise it
\* returns True having removed the first lesson with that title and nothing
\* else: the other lessons of the course and the other courses keep their
\* content and order.
C36_RemoveLessonContract ==
    [][call' = "remove_lesson_from_course" =>
          \A c \in CourseIdInputs, ti \in Titles :
             remove_lesson_from_course(c, ti) =>
                LET ci == find_course_by_id(c)
                    li == IF ci = 0 THEN 0
                          ELSE FirstWithTitle(courses[ci].lessons, ti)
                IN IF li = 0
                   THEN ret' = "False" /\ UNCHANGED mem
                   ELSE /\ ret' = "True"
                        /\ courses' = [courses EXCEPT ![ci].lessons = RemoveAt(@, li)]
                        /\ students' = students]_vars

\* student i is enrolled in the course: the course's id is in the student's
\* list and the student's id is on the course's roster
EnrolledIn(studs, i, course) ==
    /\ Contains(studs[i].enrolled_course_ids, course.id)
    /\ Contains(course.enrolled_student_ids, studs[i].id)

\* every course left after the step keeps its roster, and no student loses
\* or gains an enrollment in any of them
RemainingUntouched(remaining) ==
    /\ courses' = remaining
    /\ Len(students') = Len(students)
    /\ \A i \in 1..Len(students) : \A j \in 1..Len(remaining) :
          /\ EnrolledIn(students, i, remaining[j]) => EnrolledIn(students', i, remaining[j])
          /\ EnrolledIn(students', i, remaining[j]) => EnrolledIn(students, i, remaining[j])

\* C37: a remove_teacher(T) that succeeds leaves every course not taught by T
\* in place with its roster, and each student's enrollment in those courses;
\* a remove_course(C) of a known course does so for every course other
\* than C.
C37_CascadeFrame ==
    [][/\ call' = "remove_teacher" =>
             \A t \in TeacherIdInputs :
                (remove_teacher(t) /\ find_teacher_by_id(t) # 0) =>
                   RemainingUntouched(NotTaughtBy(courses, t))
       /\ call' = "remove_course" =>
             \A c \in CourseIdInputs :
                (remove_course(c) /\ find_course_by_id(c) # 0) =>
                   \/ UNCHANGED <<students, courses>>
                   \/ RemainingUntouched(RemoveAt(courses, find_course_by_id(c)))]_vars

\* nothing recorded so far carries the id: no payment, no roster entry, no
\* check-in
NothingRecordedFor(id) ==
    /\ PaymentsOf(finance_log, id) = <<>>
    /\ \A j \in 1..Len(courses) : ~Contains(courses[j].enrolled_student_ids, id)
    /\ \A k \in 1..Len(attendance_log) : attendance_log[k].student_id # id

\* C38: right after add_student has returned a student, that student's
\* payment history is empty and the student's id is on no course roster and
\* in no attendance record, also when the registry was constructed on a data
\* file that an earlier registry saved.
C38_NewStudentClean ==
    (call = "add_student" /\ ret = "entity") => NothingRecordedFor(retId)

\* the operations through which an administrator account is given credentials
GrantingOps == {"add_admin", "edit_admin"}

\* C39: credentials that no administrator account holds (after remove_admin,
\* or after edit_admin has changed the password) stay refused: no step other
\* than an add_admin or edit_admin brings back an account holding them, a
\* restart on the same data file included, and sign_in_admin with them
\* returns False; so admin/password does not sign in again once the default
\* administrator's password has been changed.
C39_RevokedStaysRevoked ==
    [][\A in \in SignInInputs :
          (~Matches(admin, "username", in[1], in[2]) /\ call' \notin GrantingOps) =>
             /\ ~Matches(admin', "username", in[1], in[2])
             /\ (call' = "sign_in_admin" /\ sign_in_admin(in[1], in[2])) =>
                   ret' = "False"]_vars

====
